---- MODULE Spec2Model ----
(***************************************************************************)
(* A model of the brand-audit request handlers of                          *)
(* src/netlify/functions/competitors.js: the express /api/audit handler    *)
(* (lines 833-1057) and the serverless audit handler (lines 259-389),      *)
(* with the collaborators they call: fetchWebsite, takeScreenshot,         *)
(* takeGoogleScreenshot and the LLM client (anthropic.messages.create).    *)
(*                                                                         *)
(* JavaScript values are modelled as follows.  An object is a function     *)
(* with a domain of strings (a missing key reads as Undefined), an array   *)
(* is a sequence, null is Null, a string or an image is a record Txt(..)   *)
(* or TxtOf(.., b) that names what the text is and the brand it is about,  *)
(* and a URL is a sequence of one-character strings.                       *)
(***************************************************************************)
EXTENDS Integers, Sequences, FiniteSets, TLC

----
\* Bounds of the model.

\* The longest competitors list of a request.
MaxCompetitors == 2

\* The most collaborator failures (a null fetch or capture, an LLM reply that
\* is not the expected JSON, a failed LLM call) the environment injects into
\* one request.
MaxFaults == 2

----
\* Program constants.

\* setTimeout(resolve, 500) between two inference calls.
PacingDelayMs == 500

\* setTimeout(resolve, 1000) before the comparison call of the express handler.
CompareDelayMs == 1000

----
\* JavaScript values.

Null == [isNull |-> TRUE]

Undefined == [isUndefined |-> TRUE]

EmptyObject == [k \in {} |-> Null]

Txt(label) == [t |-> label, of |-> -1]

TxtOf(label, b) == [t |-> label, of |-> b]

EmptyString == Txt("")

Num(n) == [num |-> n]

\* o.k
Get(o, k) == IF k \in DOMAIN o THEN o[k] ELSE Undefined

\* v || d, for a value that is null, undefined, a string or an object.
OrElse(v, d) == IF v \in {Null, Undefined, EmptyString} THEN d ELSE v

\* o.k || d, for a key that holds an array when it is present.
GetOr(o, k, d) == IF k \in DOMAIN o THEN o[k] ELSE d

\* { ...a, ...b }: spreading null or undefined adds nothing.
Spread(a, b) ==
  LET oa == IF a \in {Null, Undefined} THEN EmptyObject ELSE a
      ob == IF b \in {Null, Undefined} THEN EmptyObject ELSE b
  IN  [k \in DOMAIN oa \cup DOMAIN ob |-> IF k \in DOMAIN ob THEN ob[k] ELSE oa[k]]

\* Object.fromEntries(entries): a later entry overwrites an earlier one with
\* the same key.  An entry is <<key, value>>.
FromEntries(entries) ==
  LET keys == {entries[i][1] : i \in DOMAIN entries}
      last(k) == CHOOSE i \in DOMAIN entries :
                   /\ entries[i][1] = k
                   /\ \A j \in DOMAIN entries : entries[j][1] = k => j <= i
  IN  [k \in keys |-> entries[last(k)][2]]

----
\* URLs, as sequences of characters.

Whitespace == {" ", "\t", "\n"}

HttpPrefix == <<"h", "t", "t", "p", ":", "/", "/">>

HttpsPrefix == <<"h", "t", "t", "p", "s", ":", "/", "/">>

\* url.startsWith(prefix)
StartsWith(url, prefix) ==
  /\ Len(url) >= Len(prefix)
  /\ SubSeq(url, 1, Len(prefix)) = prefix

\* url.trim()
RECURSIVE TrimStart(_)
TrimStart(url) ==
  IF url # <<>> /\ Head(url) \in Whitespace THEN TrimStart(Tail(url)) ELSE url

RECURSIVE TrimEnd(_)
TrimEnd(url) ==
  IF url # <<>> /\ url[Len(url)] \in Whitespace
  THEN TrimEnd(SubSeq(url, 1, Len(url) - 1))
  ELSE url

Trim(url) == TrimEnd(TrimStart(url))

\* A normalizeUrl that does not trim.
normalizeUrlUntrimmed(url) ==
  IF ~StartsWith(url, HttpPrefix) /\ ~StartsWith(url, HttpsPrefix)
  THEN HttpsPrefix \o url
  ELSE url

normalizeUrl(url) ==
  LET u == Trim(url)
  IN  IF ~StartsWith(u, HttpPrefix) /\ ~StartsWith(u, HttpsPrefix)
      THEN HttpsPrefix \o u
      ELSE u

----
\* Requests.

FocalName == "F"

\* No scheme: normalizeUrl prepends https://.
FocalUrl == <<"f", ".", "c", "o">>

\* The competitors a request may list, in the order it lists them: their
\* URLs carry a scheme, need trimming, or carry neither.
CompetitorPool ==
  <<[name |-> "A", url |-> <<"h", "t", "t", "p", ":", "/", "/", "a">>],
    [name |-> "B", url |-> <<" ", "b">>],
    [name |-> "C", url |-> <<"c">>],
    [name |-> "D", url |-> <<"h", "t", "t", "p", "s", ":", "/", "/", "d">>]>>

\* n competitors with names of their own.
DistinctList(n) == SubSeq(CompetitorPool, 1, n)

\* n competitors, the last of which repeats the first.
RepeatingList(n) == [DistinctList(n) EXCEPT ![n] = CompetitorPool[1]]

\* Up to renaming the competitors: the lists of up to MaxCompetitors
\* competitors with distinct names, and those that name one competitor twice.
CompetitorLists ==
  {DistinctList(n) : n \in 0 .. MaxCompetitors}
    \cup {RepeatingList(n) : n \in 2 .. MaxCompetitors}

\* req.body: each of companyUrl, companyName and competitors is missing,
\* empty or present.
Requests ==
  LET urls == {EmptyObject, [companyUrl |-> <<>>], [companyUrl |-> FocalUrl]}
      names == {EmptyObject, [companyName |-> ""], [companyName |-> FocalName]}
      lists == {EmptyObject} \cup {[competitors |-> l] : l \in CompetitorLists}
  IN  {Spread(Spread(u, n), l) : u \in urls, n \in names, l \in lists}

Handlers == {"express", "serverless"}

\* Brand 0 is the focal company, brand i >= 1 is competitors[i].
Brands == 0 .. MaxCompetitors

----
\* Collected content.

\* The text fetchWebsite resolves to for brand b, and the images the two
\* capture functions resolve to; each resolves to Null when it fails.
PageOf(b) == TxtOf("html", b)

ScreenshotOf(b) == TxtOf("screenshot", b)

GoogleScreenshotOf(b) == TxtOf("googleScreenshot", b)

CouldNotDetect == Txt("Could not detect")

\* extractStructuredContent, on the page of brand b or on no page.  The
\* express handler calls it with html || '' and gets empty fields and the
\* 'Could not detect' colours and fonts; the serverless one returns the
\* five empty fields for a missing page.
extractStructuredContent(h, html) ==
  LET b == html.of
      found == [metaTitle |-> TxtOf("metaTitle", b),
                metaDescription |-> TxtOf("metaDescription", b),
                h1 |-> TxtOf("h1", b),
                subheadline |-> TxtOf("subheadline", b),
                text |-> TxtOf("text", b)]
      empty == [metaTitle |-> EmptyString, metaDescription |-> EmptyString,
                h1 |-> EmptyString, subheadline |-> EmptyString,
                text |-> EmptyString]
  IN  IF h = "express"
      THEN IF html \in {Null, EmptyString}
           THEN Spread(empty, [colors |-> CouldNotDetect, fonts |-> CouldNotDetect])
           ELSE Spread(found, [colors |-> TxtOf("colors", b), fonts |-> TxtOf("fonts", b)])
      ELSE IF html \in {Null, EmptyString} THEN empty ELSE found

\* A call site that hands the fetched page over as it is.
HtmlArgumentUnguarded(h, html) == html

\* The argument the handler hands to extractStructuredContent for a fetched
\* page: the express handler passes html || '', the serverless one the page.
HtmlArgument(h, html) == IF h = "express" THEN OrElse(html, EmptyString) ELSE html

\* html.match(...) throws a TypeError on null.  The express function starts
\* with it; the serverless one returns its empty record first on !html.
MatchThrows(h, arg) == h = "express" /\ arg = Null

----
\* LLM replies.

\* A reply of the LLM, by what the parsing code makes of its text: a JSON
\* object of the shape the prompt asks for, the object {}, a text without
\* any {...} span, and a {...} span that is not JSON.
Replies == {"json", "emptyjson", "nojson", "badjson"}

\* The outcome of anthropic.messages.create: a reply, or a rejection.
LlmOutcomes == Replies \cup {"throw"}

\* The object the prompt of a stage asks for, about brand b.
PromptedObject(stage, b) ==
  CASE stage = "msg" ->
         [positioning |-> TxtOf("positioning", b),
          voiceAdjectives |-> <<TxtOf("adjective", b)>>,
          voiceSummary |-> TxtOf("voiceSummary", b)]
    [] stage = "vis" ->
         [colors |-> TxtOf("llm colors", b),
          typography |-> TxtOf("llm typography", b),
          visualStyle |-> TxtOf("llm visualStyle", b)]
    [] stage = "fi" ->
         [firstImpression |-> TxtOf("firstImpression", b),
          clarity |-> TxtOf("clarity", b),
          appeal |-> TxtOf("appeal", b)]
    [] stage = "cmp" ->
         [score |-> Num(70),
          overlaps |-> <<[category |-> Txt("voice"), pattern |-> Txt("pattern")]>>,
          standouts |-> <<Txt("standout")>>,
          verdict |-> Txt("verdict")]
    [] stage = "take" ->
         [keep |-> <<Txt("keep")>>, fix |-> <<Txt("fix")>>,
          explore |-> <<Txt("explore")>>, watch |-> <<Txt("watch")>>]

\* What a stage makes of an exception thrown inside it.
Raise == [raised |-> TRUE]

\* A parse without try/catch in every stage.
ParseReplyUncaught(h, stage, b, reply) ==
  CASE reply = "json" -> PromptedObject(stage, b)
    [] reply = "emptyjson" -> EmptyObject
    [] reply = "nojson" -> Null
    [] reply = "badjson" -> Raise

\* The loop over response.content of every stage: the first {...} span is
\* handed to JSON.parse.  The express stages wrap the parse in try/catch and
\* fall through to null; the serverless stages do not, and JSON.parse throws.
ParseReply(h, stage, b, reply) ==
  CASE reply = "json" -> PromptedObject(stage, b)
    [] reply = "emptyjson" -> EmptyObject
    [] reply = "nojson" -> Null
    [] reply = "badjson" -> IF h = "express" THEN Null ELSE Raise

CouldNotCapture == Txt("Could not capture")

\* An extractVisuals whose short-circuit returns the parse fallback.
CouldNotCaptureAsUnknown ==
  [colors |-> Txt("Unknown"), typography |-> Txt("Unknown"),
   visualStyle |-> Txt("Unknown")]

\* extractVisuals without a screenshot: no LLM call.
CouldNotCaptureVisuals ==
  [colors |-> CouldNotCapture, typography |-> CouldNotCapture,
   visualStyle |-> CouldNotCapture]

\* extractVisuals when no block of the reply parses.
UnknownVisuals ==
  [colors |-> Txt("Unknown"), typography |-> Txt("Unknown"),
   visualStyle |-> Txt("Unknown")]

\* What the stage function returns to the handler for a reply.
StageValue(h, stage, b, reply) ==
  LET parsed == ParseReply(h, stage, b, reply)
  IN  IF stage = "vis" /\ parsed = Null THEN UnknownVisuals ELSE parsed

\* extractVisuals without its short-circuit.
NoScreenshotUnchecked(image) == FALSE

\* if (!screenshotBase64) in extractVisuals.
NoScreenshot(image) == image = Null

----
\* The pipeline of inference calls.

Step(stage, b) == [stage |-> stage, brand |-> b]

End == Step("end", 0)

\* A pipeline that runs each stage for every brand before the next stage.
NextStepStageByStage(h, s, n) ==
  CASE s.stage = "msg" ->
         IF s.brand < n THEN Step("msg", s.brand + 1)
         ELSE Step(IF h = "express" THEN "vis" ELSE "fi", 0)
    [] s.stage = "vis" -> IF s.brand < n THEN Step("vis", s.brand + 1) ELSE Step("fi", 0)
    [] s.stage = "fi" -> IF s.brand < n THEN Step("fi", s.brand + 1) ELSE Step("cmp", 0)
    [] s.stage = "cmp" -> Step("take", 0)
    [] s.stage = "take" -> End

\* A pipeline that asks for the takeaways before it compares the brands.
NextStepTakeawaysFirst(h, s, n) ==
  CASE s.stage = "msg" -> Step(IF h = "express" THEN "vis" ELSE "fi", s.brand)
    [] s.stage = "vis" -> Step("fi", s.brand)
    [] s.stage = "fi" -> IF s.brand < n THEN Step("msg", s.brand + 1) ELSE Step("take", 0)
    [] s.stage = "take" -> Step("cmp", 0)
    [] s.stage = "cmp" -> End

\* The call the handler makes after call s has been awaited, for a request
\* with n competitors: the focal company's inferences, then each
\* competitor's in request order, then the comparison, then the takeaways.
\* The serverless handler has no visual stage.
NextStep(h, s, n) ==
  CASE s.stage = "msg" -> Step(IF h = "express" THEN "vis" ELSE "fi", s.brand)
    [] s.stage = "vis" -> Step("fi", s.brand)
    [] s.stage = "fi" -> IF s.brand < n THEN Step("msg", s.brand + 1) ELSE Step("cmp", 0)
    [] s.stage = "cmp" -> Step("take", 0)
    [] s.stage = "take" -> End

\* The same short delay before every call.
DelayBeforeAlwaysShort(h, s) == PacingDelayMs

\* The setTimeout that precedes call s.
DelayBefore(h, s) ==
  IF h = "express" /\ s.stage = "cmp" THEN CompareDelayMs ELSE PacingDelayMs

\* A handler that starts the focal messaging and visual calls together.
CallsIssuedTogether(s) == IF s.stage = "msg" THEN {s, Step("vis", s.brand)} ELSE {s}

\* The calls in flight once the handler has issued call s: it awaits each
\* call before it goes on.
CallsIssuedAt(s) == {s}

\* A handler that goes on without its focal messaging.
FocalMessagingNeverFatal(m) == FALSE

\* if (!companyMessaging) return res.status(500)...
FocalMessagingFatal(m) == m = Null

\* A handler that goes on without its comparison.
ComparisonNeverFatal(c) == FALSE

\* if (!comparison) return res.status(500)...
ComparisonFatal(c) == c = Null

\* A validation that forgets the empty competitors list.
InvalidRequestAllowsEmptyList(h, r) ==
  \/ "companyUrl" \notin DOMAIN r
  \/ r.companyUrl = <<>>
  \/ "companyName" \notin DOMAIN r
  \/ r.companyName = ""
  \/ "competitors" \notin DOMAIN r

\* The validation at the head of both handlers.
InvalidRequest(h, r) ==
  \/ "companyUrl" \notin DOMAIN r
  \/ r.companyUrl = <<>>
  \/ "companyName" \notin DOMAIN r
  \/ r.companyName = ""
  \/ "competitors" \notin DOMAIN r
  \/ Len(r.competitors) = 0

----
\* Report assembly.

Dash == Txt("-")

\* formatVoice / formatVoiceFull: "adjective, adjective - summary", the
\* summary alone, or a dash.  The formatted string is kept as its parts.
formatVoice(inferred) ==
  LET adjs == GetOr(inferred, "voiceAdjectives", <<>>)
      summary == OrElse(Get(inferred, "voiceSummary"), EmptyString)
  IN  IF adjs # <<>>
      THEN [adjectives |-> adjs, summary |-> summary]
      ELSE OrElse(summary, Dash)

\* `${colors || ''} . ${typography || ''} . ${visualStyle || ''}` with a
\* leading and a trailing separator removed: the string is kept as the
\* sequence of the parts its separators divide.
VisualStyleCell(inferred) ==
  LET c == OrElse(Get(inferred, "colors"), EmptyString)
      t == OrElse(Get(inferred, "typography"), EmptyString)
      v == OrElse(Get(inferred, "visualStyle"), EmptyString)
      head == IF c = EmptyString THEN <<t, v>> ELSE <<c, t, v>>
  IN  IF v = EmptyString THEN SubSeq(head, 1, Len(head) - 1) ELSE head

\* One entry of competitorResults.
CompetitorResult(h, comp, structured, m, v, f, g) ==
  IF h = "express"
  THEN [name |-> comp.name,
        url |-> comp.url,
        scraped |-> [h1 |-> structured.h1,
                     subheadline |-> structured.subheadline,
                     metaTitle |-> structured.metaTitle,
                     metaDescription |-> structured.metaDescription],
        inferred |-> Spread(OrElse(m, EmptyObject), OrElse(v, EmptyObject)),
        firstImpressions |-> OrElse(f, EmptyObject),
        googleScreenshot |-> g]
  ELSE [name |-> comp.name,
        url |-> comp.url,
        scraped |-> [h1 |-> structured.h1, subheadline |-> structured.subheadline],
        inferred |-> OrElse(m, EmptyObject),
        firstImpressions |-> OrElse(f, EmptyObject)]

\* chartData of the express handler.
chartData(companyName, companyInferred, cs) ==
  LET names == [i \in DOMAIN cs |-> cs[i].name]
      positionings == [i \in DOMAIN cs |-> Get(cs[i].inferred, "positioning")]
      voices == [i \in DOMAIN cs |-> formatVoice(cs[i].inferred)]
      styles == [i \in DOMAIN cs |-> VisualStyleCell(cs[i].inferred)]
  IN  [columns |-> <<"Category", companyName>> \o names,
       rows |-> <<[category |-> "Positioning",
                   values |-> <<Get(companyInferred, "positioning")>> \o positionings],
                  [category |-> "Voice",
                   values |-> <<formatVoice(companyInferred)>> \o voices],
                  [category |-> "Visual Style",
                   values |-> <<VisualStyleCell(companyInferred)>> \o styles]>>]

\* chartData of the serverless handler: two rows, a dash for a missing
\* positioning.
chartDataServerless(companyName, focalMessaging, cs) ==
  LET names == [i \in DOMAIN cs |-> cs[i].name]
      positionings ==
        [i \in DOMAIN cs |-> OrElse(Get(cs[i].inferred, "positioning"), Dash)]
      voices == [i \in DOMAIN cs |-> formatVoice(cs[i].inferred)]
  IN  [columns |-> <<"Category", companyName>> \o names,
       rows |-> <<[category |-> "Positioning",
                   values |-> <<OrElse(Get(focalMessaging, "positioning"), Dash)>>
                              \o positionings],
                  [category |-> "Voice",
                   values |-> <<formatVoice(focalMessaging)>> \o voices]>>]

----
\* The state of one request.

VARIABLES
  handler,                  \* which handler serves the request
  req,                      \* req.body / JSON.parse(event.body)
  pc,                       \* where the handler is: start, collect, llm, delay, done
  task,                     \* each fetch and capture: idle, running, done
  collected,                \* what each fetch and capture resolved to
  step,                     \* the inference call awaited (pc = llm) or next (pc = delay)
  delayMs,                  \* the timer awaited (pc = delay)
  companyMessaging,
  companyVisuals,
  companyFirstImpressions,
  messaging,                \* the loop's messaging, for the current competitor
  visuals,                  \* the loop's visuals
  competitorResults,
  comparison,
  takeaways,
  res,                      \* the response
  nres,                     \* how many responses were sent
  inflight,                 \* the LLM calls issued and not yet settled
  log,                      \* the LLM calls and timers of the request, in order
  faults                    \* the failures injected so far

\* The state of one call of fetchWebsite.
VARIABLES
  fetchArg,                 \* the argument of the call
  fetchPc,                  \* idle, call, get, body, returned, threw
  fetchUrl,                 \* the local url, once normalized
  gets,                     \* the URLs requested with fetch(...), in order
  response,                 \* the status of the response whose body is read
  fetchOut                  \* what the call resolved to

\* The state of one call of extractStructuredContent.
VARIABLES
  page,                     \* the argument of the call
  extractPc,                \* idle, call, returned, threw
  extracted                 \* the record the call returned

\* The state of one suggest-competitors request.
VARIABLES
  suggestReq,               \* the method and the body of the request
  suggestPc,                \* idle, start, fetch, llm, done
  suggestReply,             \* what anthropic.messages.create came to, once settled
  suggestRes                \* the response

results == <<companyMessaging, companyVisuals, companyFirstImpressions, messaging,
             visuals, competitorResults, comparison, takeaways>>

fetchVars == <<fetchArg, fetchPc, fetchUrl, gets, response, fetchOut>>

\* The variables no step of an audit request changes.
extractVars == <<page, extractPc, extracted>>

suggestVars == <<suggestReq, suggestPc, suggestReply, suggestRes>>

otherVars == <<fetchVars, extractVars, suggestVars>>

vars == <<handler, req, pc, task, collected, step, delayMs, results, res, nres,
          inflight, log, faults, otherVars>>

Kinds == {"html", "shot", "gshot"}

Tasks == Brands \X Kinds

NumCompetitors == Len(req.competitors)

NoResponse == [sent |-> FALSE]

\* An entry of the log: the issue of LLM call s, its return with a reply
\* that parsed to got (object, empty, null, raise), its failure, an
\* exception leaving the stage of call s (raise), or the timer of ms
\* milliseconds that preceded call s (delay).
Event(ev, s, ms, got) ==
  [ev |-> ev, stage |-> s.stage, brand |-> s.brand, ms |-> ms, got |-> got]

\* What the parse made of a reply.
Got(parsed) ==
  CASE parsed = Null -> "null"
    [] parsed = Raise -> "raise"
    [] parsed = EmptyObject -> "empty"
    [] OTHER -> "object"

\* No call of fetchWebsite is under way.
FetchIdle ==
  /\ fetchArg = Undefined
  /\ fetchPc = "idle"
  /\ fetchUrl = <<>>
  /\ gets = <<>>
  /\ response = 0
  /\ fetchOut = Undefined

\* The locals of an audit handler before it has run.
AuditFresh ==
  /\ task = [t \in Tasks |-> "idle"]
  /\ collected = [t \in Tasks |-> Undefined]
  /\ step = End
  /\ delayMs = 0
  /\ companyMessaging = Undefined
  /\ companyVisuals = Undefined
  /\ companyFirstImpressions = Undefined
  /\ messaging = Undefined
  /\ visuals = Undefined
  /\ competitorResults = <<>>
  /\ comparison = Undefined
  /\ takeaways = Undefined
  /\ res = NoResponse
  /\ nres = 0
  /\ inflight = {}
  /\ log = <<>>
  /\ faults = 0

\* No call of extractStructuredContent is under way.
ExtractIdle ==
  /\ page = Null
  /\ extractPc = "idle"
  /\ extracted = Undefined

\* No suggest-competitors request is under way.
SuggestIdle ==
  /\ suggestReq = EmptyObject
  /\ suggestPc = "idle"
  /\ suggestReply = ""
  /\ suggestRes = NoResponse

Init ==
  /\ handler \in Handlers
  /\ req \in Requests
  /\ pc = "start"
  /\ FetchIdle
  /\ ExtractIdle
  /\ SuggestIdle
  /\ AuditFresh

\* No audit request is under way.
AuditIdle ==
  /\ req = EmptyObject
  /\ pc = "idle"
  /\ AuditFresh

\* A handler that returns without answering.
RespondNothing(status, body) ==
  /\ pc' = "done"
  /\ UNCHANGED <<res, nres>>

\* res.status(status).json(body) / return { statusCode, body }
Respond(status, body) ==
  /\ res' = [sent |-> TRUE, status |-> status, body |-> body]
  /\ nres' = nres + 1
  /\ pc' = "done"

----
\* The collection phase.

\* The fetches and captures started when the handler starts collecting.  The
\* express handler builds the array of Promise.all: the three calls for the
\* focal company and one async callback per competitor, which runs up to
\* its first await, the fetch.  The serverless handler awaits the focal
\* fetch alone.
LaunchedAtStart(h, n) ==
  IF h = "express"
  THEN {<<0, k>> : k \in Kinds} \cup {<<b, "html">> : b \in 1 .. n}
  ELSE {<<0, "html">>}

\* The fetches and captures started when task t has resolved: a competitor's
\* callback awaits its fetch, then its screenshot, then its search
\* screenshot; the serverless handler starts the competitors' fetches after
\* the focal one.
LaunchedAfter(h, n, t) ==
  IF h = "express"
  THEN CASE t[1] >= 1 /\ t[2] = "html" -> {<<t[1], "shot">>}
         [] t[1] >= 1 /\ t[2] = "shot" -> {<<t[1], "gshot">>}
         [] OTHER -> {}
  ELSE IF t = <<0, "html">> THEN {<<b, "html">> : b \in 1 .. n} ELSE {}

\* The fetches and captures Promise.all waits for.
Awaited(h, n) ==
  IF h = "express"
  THEN (0 .. n) \X Kinds
  ELSE (0 .. n) \X {"html"}

\* Input validation, and for a valid request the start of the collection.
Receive ==
  /\ pc = "start"
  /\ IF InvalidRequest(handler, req)
     THEN /\ Respond(400, [error |-> Txt("Missing required fields")])
          /\ UNCHANGED task
     ELSE /\ pc' = "collect"
          /\ task' = [t \in Tasks |->
                        IF t \in LaunchedAtStart(handler, NumCompetitors)
                        THEN "running" ELSE "idle"]
          /\ UNCHANGED <<res, nres>>
  /\ UNCHANGED <<handler, req, collected, step, delayMs, results, inflight, log, faults>>
  /\ UNCHANGED otherVars

\* Task t resolves, to its content or (a failure) to null, and the code
\* waiting for it starts what follows.
Settles(t, content, budget) ==
  /\ pc = "collect"
  /\ task[t] = "running"
  /\ \E ok \in BOOLEAN :
       /\ ok \/ faults < budget
       /\ collected' = [collected EXCEPT ![t] = IF ok THEN content ELSE Null]
       /\ faults' = IF ok THEN faults ELSE faults + 1
  /\ task' = [u \in Tasks |->
                IF u = t THEN "done"
                ELSE IF u \in LaunchedAfter(handler, NumCompetitors, t) THEN "running"
                ELSE task[u]]
  /\ UNCHANGED <<handler, req, pc, step, delayMs, results, res, nres, inflight, log>>
  /\ UNCHANGED otherVars

\* A task resolves, with the failures of one request bounded.
Resolves(t, content) == Settles(t, content, MaxFaults)

\* fetchWebsite resolves.
FetchReturns(b) == Resolves(<<b, "html">>, PageOf(b))

\* takeScreenshot resolves.
ScreenshotReturns(b) == Resolves(<<b, "shot">>, ScreenshotOf(b))

\* takeGoogleScreenshot resolves.
GoogleScreenshotReturns(b) == Resolves(<<b, "gshot">>, GoogleScreenshotOf(b))

IssueEvents(s) == <<Event("issue", s, 0, "")>>

\* error.message of the TypeError of null.match(...).
MatchErrorMessage == Txt("message of the TypeError")

\* Promise.all has resolved: the handler extracts the structured content
\* of every page, an exception of which reaches its catch block, and calls
\* extractMessaging for the focal company.
CollectionDone ==
  /\ pc = "collect"
  /\ \A t \in Awaited(handler, NumCompetitors) : task[t] = "done"
  /\ IF \E b \in 0 .. NumCompetitors :
          MatchThrows(handler, HtmlArgument(handler, collected[<<b, "html">>]))
     THEN /\ log' = Append(log, Event("raise", Step("extract", 0), 0, ""))
          /\ Respond(500, [error |-> MatchErrorMessage])
          /\ UNCHANGED <<step, inflight>>
     ELSE /\ pc' = "llm"
          /\ step' = Step("msg", 0)
          /\ inflight' = inflight \cup CallsIssuedAt(Step("msg", 0))
          /\ log' = log \o IssueEvents(Step("msg", 0))
          /\ UNCHANGED <<res, nres>>
  /\ UNCHANGED <<handler, req, task, collected, delayMs, results, faults>>
  /\ UNCHANGED otherVars

----
\* The inference phase.

\* The structured content of brand b.
Structured(b) ==
  extractStructuredContent(handler, HtmlArgument(handler, collected[<<b, "html">>]))

\* A name-keyed map: the focal company's entry, then one entry per
\* competitor result, a later entry overwriting an earlier one of its name.
\* A map whose competitor entries all carry the first competitor's value.
NameKeyedFirstValue(focalValue, values) ==
  Spread(req.companyName :> focalValue,
         FromEntries([i \in DOMAIN competitorResults |->
                        <<competitorResults[i].name, values[1]>>]))

NameKeyed(focalValue, values) ==
  Spread(req.companyName :> focalValue,
         FromEntries([i \in DOMAIN competitorResults |->
                        <<competitorResults[i].name, values[i]>>]))

\* The body of res.json(...) of the express handler, with takeaways tk.
ExpressReport(tk) ==
  LET companyInferred == Spread(companyMessaging, companyVisuals)
      shots == [i \in DOMAIN competitorResults |->
                  [url |-> normalizeUrl(req.competitors[i].url),
                   image |-> collected[<<i, "shot">>]]]
      gshots == [i \in DOMAIN competitorResults |-> competitorResults[i].googleScreenshot]
      impressions ==
        [i \in DOMAIN competitorResults |->
           Spread(competitorResults[i].firstImpressions,
                  [metaTitle |-> competitorResults[i].scraped.metaTitle,
                   metaDescription |-> competitorResults[i].scraped.metaDescription])]
  IN  [score |-> Get(comparison, "score"),
       verdict |-> Get(comparison, "verdict"),
       overlaps |-> Get(comparison, "overlaps"),
       standouts |-> Get(comparison, "standouts"),
       takeaways |-> OrElse(tk, EmptyObject),
       chart |-> chartData(req.companyName, companyInferred, competitorResults),
       screenshots |->
         NameKeyed([url |-> normalizeUrl(req.companyUrl),
                    image |-> collected[<<0, "shot">>]], shots),
       googleScreenshots |-> NameKeyed(collected[<<0, "gshot">>], gshots),
       firstImpressions |->
         NameKeyed(Spread(companyFirstImpressions,
                          [metaTitle |-> Structured(0).metaTitle,
                           metaDescription |-> Structured(0).metaDescription]),
                   impressions)]

\* The body of the serverless handler's 200 response, with takeaways tk.
ServerlessReport(tk) ==
  LET impressions ==
        [i \in DOMAIN competitorResults |->
           Spread(competitorResults[i].firstImpressions,
                  [metaTitle |-> Get(competitorResults[i].scraped, "metaTitle"),
                   metaDescription |->
                     Get(competitorResults[i].scraped, "metaDescription")])]
  IN  [score |-> OrElse(Get(comparison, "score"), Num(50)),
       verdict |-> OrElse(Get(comparison, "verdict"), EmptyString),
       overlaps |-> GetOr(comparison, "overlaps", <<>>),
       standouts |-> GetOr(comparison, "standouts", <<>>),
       takeaways |-> OrElse(tk, EmptyObject),
       chart |-> chartDataServerless(req.companyName, companyMessaging, competitorResults),
       firstImpressions |->
         NameKeyed(Spread(companyFirstImpressions,
                          [metaTitle |-> Structured(0).metaTitle,
                           metaDescription |-> Structured(0).metaDescription]),
                   impressions)]

Report(tk) == IF handler = "express" THEN ExpressReport(tk) ELSE ServerlessReport(tk)

\* The handler resumes with the value v of call s: it stores v and runs to
\* its next await, which is a timer, or to its response.
Proceed(s, v) ==
  LET b == s.brand
      loop == s.brand > 0
  IN
  /\ companyMessaging' = IF s = Step("msg", 0) THEN v ELSE companyMessaging
  /\ companyVisuals' = IF s = Step("vis", 0) THEN v ELSE companyVisuals
  /\ companyFirstImpressions' = IF s = Step("fi", 0) THEN v ELSE companyFirstImpressions
  /\ messaging' = CASE loop /\ s.stage = "msg" -> v
                    [] loop /\ s.stage = "fi" -> Undefined
                    [] OTHER -> messaging
  /\ visuals' = CASE loop /\ s.stage = "vis" -> v
                  [] loop /\ s.stage = "fi" -> Undefined
                  [] OTHER -> visuals
  /\ competitorResults' =
       IF loop /\ s.stage = "fi"
       THEN Append(competitorResults,
                   CompetitorResult(handler, req.competitors[b], Structured(b),
                                    messaging, visuals, v, collected[<<b, "gshot">>]))
       ELSE competitorResults
  /\ comparison' = IF s.stage = "cmp" THEN v ELSE comparison
  /\ takeaways' = IF s.stage = "take" THEN v ELSE takeaways
  /\ CASE handler = "express" /\ s = Step("fi", 0) /\ FocalMessagingFatal(companyMessaging) ->
            /\ Respond(500, [error |-> Txt("Could not analyze your website")])
            /\ UNCHANGED <<step, delayMs>>
       [] handler = "express" /\ s.stage = "cmp" /\ ComparisonFatal(v) ->
            /\ Respond(500, [error |-> Txt("Could not compare brands")])
            /\ UNCHANGED <<step, delayMs>>
       [] s.stage = "take" ->
            /\ Respond(200, Report(v))
            /\ UNCHANGED <<step, delayMs>>
       [] OTHER ->
            /\ pc' = "delay"
            /\ step' = NextStep(handler, s, NumCompetitors)
            /\ delayMs' = DelayBefore(handler, NextStep(handler, s, NumCompetitors))
            /\ UNCHANGED <<res, nres>>

\* The timer fires and the handler makes its next call.  extractVisuals
\* without a screenshot returns at once, and the handler goes on to its
\* next timer; every other call issues an LLM request.
TimerFires ==
  /\ pc = "delay"
  /\ IF step.stage = "vis" /\ NoScreenshot(collected[<<step.brand, "shot">>])
     THEN /\ Proceed(step, CouldNotCaptureVisuals)
          /\ log' = Append(log, Event("delay", step, delayMs, ""))
          /\ UNCHANGED inflight
     ELSE /\ pc' = "llm"
          /\ inflight' = inflight \cup CallsIssuedAt(step)
          /\ log' = Append(log, Event("delay", step, delayMs, "")) \o IssueEvents(step)
          /\ UNCHANGED <<step, delayMs, results, res, nres>>
  /\ UNCHANGED <<handler, req, task, collected, faults>>
  /\ UNCHANGED otherVars

\* error.message of the exception the handler's catch block receives.
ExceptionMessage(out) ==
  IF out = "throw" THEN Txt("message of the LLM client's error")
  ELSE Txt("message of the JSON.parse SyntaxError")

\* anthropic.messages.create settles.  A rejection, or an exception the
\* stage does not catch, reaches the handler's catch block, which answers
\* 500 with the exception's message; otherwise the stage returns its value
\* and the handler resumes.
LlmReturns(c, out) ==
  /\ pc = "llm"
  /\ c \in inflight
  /\ out = "json" \/ faults < MaxFaults
  /\ faults' = IF out = "json" THEN faults ELSE faults + 1
  /\ inflight' = inflight \ {c}
  /\ IF c # step
     THEN /\ log' = Append(log, Event("return", c, 0, ""))
          /\ UNCHANGED <<pc, step, delayMs, results, res, nres>>
     ELSE IF out = "throw"
     THEN /\ log' = log \o <<Event("fail", c, 0, ""), Event("raise", c, 0, "")>>
          /\ Respond(500, [error |-> ExceptionMessage(out)])
          /\ UNCHANGED <<step, delayMs, results>>
     ELSE IF StageValue(handler, c.stage, c.brand, out) = Raise
     THEN /\ log' = log \o <<Event("return", c, 0, "raise"), Event("raise", c, 0, "")>>
          /\ Respond(500, [error |-> ExceptionMessage(out)])
          /\ UNCHANGED <<step, delayMs, results>>
     ELSE /\ log' = Append(log, Event("return", c, 0,
                                        Got(ParseReply(handler, c.stage, c.brand, out))))
          /\ Proceed(c, StageValue(handler, c.stage, c.brand, out))
  /\ UNCHANGED <<handler, req, task, collected>>
  /\ UNCHANGED otherVars

Next ==
  \/ Receive
  \/ \E b \in Brands : FetchReturns(b)
  \/ \E b \in Brands : ScreenshotReturns(b)
  \/ \E b \in Brands : GoogleScreenshotReturns(b)
  \/ CollectionDone
  \/ TimerFires
  \/ \E c \in inflight, out \in LlmOutcomes : LlmReturns(c, out)

Spec == Init /\ [][Next]_vars

\* The audit when every await settles: each fetch and capture resolves (to
\* null when it failed), each timer fires, each LLM call returns or
\* rejects, and the handler runs when it can.
SpecLive ==
  /\ Spec
  /\ WF_vars(Receive)
  /\ WF_vars(\E b \in Brands :
               FetchReturns(b) \/ ScreenshotReturns(b) \/ GoogleScreenshotReturns(b))
  /\ WF_vars(CollectionDone)
  /\ WF_vars(TimerFires)
  /\ WF_vars(\E c \in inflight, out \in LlmOutcomes : LlmReturns(c, out))

----
\* One call of fetchWebsite.

SchemeSeparator == <<":", "/", "/">>

WwwLabel == <<"w", "w", "w", ".">>

\* url.includes(part)
Includes(url, part) ==
  \E i \in 1 .. (Len(url) - Len(part) + 1) : SubSeq(url, i, i + Len(part) - 1) = part

\* url.replace(part, by): the first occurrence of part is replaced.
ReplaceFirst(url, part, by) ==
  IF ~Includes(url, part) THEN url
  ELSE LET i == CHOOSE k \in 1 .. (Len(url) - Len(part) + 1) :
                  /\ SubSeq(url, k, k + Len(part) - 1) = part
                  /\ \A j \in 1 .. (k - 1) : SubSeq(url, j, j + Len(part) - 1) # part
       IN  SubSeq(url, 1, i - 1) \o by \o SubSeq(url, i + Len(part), Len(url))

\* url.replace('://', '://www.')
WwwUrl(url) == ReplaceFirst(url, SchemeSeparator, SchemeSeparator \o WwwLabel)

\* A fetchWebsite that retries whatever the URL.
RetryAlways(h, url) == TRUE

\* Whether the catch block of the first attempt tries again: the express
\* function only when the URL has no '://www.', the serverless one always.
RetryAllowed(h, url) ==
  h = "serverless" \/ ~Includes(url, SchemeSeparator \o WwwLabel)

\* A string argument, and an argument that is no string (undefined).
Str(chars) == [str |-> chars]

NotAString == Undefined

IsString(v) == "str" \in DOMAIN v

\* The arguments of the calls explored: bare hosts, hosts with a scheme,
\* with surrounding whitespace, with www., with '://www.' in the query only,
\* the empty string, and a value that is no string.
FetchInputs ==
  {Str(<<"a">>),
   Str(<<" ", "a", "\t">>),
   Str(<<"h", "t", "t", "p", ":", "/", "/", "a">>),
   Str(<<"h", "t", "t", "p", "s", ":", "/", "/", "a">>),
   Str(<<"w", "w", "w", ".", "a">>),
   Str(<<"h", "t", "t", "p", ":", "/", "/", "w", "w", "w", ".", "a">>),
   Str(<<"a", "?", ":", "/", "/", "w", "w", "w", ".">>),
   Str(<<>>),
   NotAString}

\* The status of a response: one success and one non-success status.
Statuses == {200, 404}

\* The text a call returns: the body of the response to its n-th request.
BodyOf(n) == TxtOf("body", n)

InitFetch ==
  /\ handler \in Handlers
  /\ AuditIdle
  /\ ExtractIdle
  /\ SuggestIdle
  /\ fetchArg \in FetchInputs
  /\ fetchPc = "call"
  /\ fetchUrl = <<>>
  /\ gets = <<>>
  /\ response = 0
  /\ fetchOut = Undefined

\* url = normalizeUrl(url), outside the try: url.trim() throws a TypeError
\* for a value that is no string and the call rejects.  Then fetch(url).
FetchCalled ==
  /\ fetchPc = "call"
  /\ IF IsString(fetchArg)
     THEN /\ fetchUrl' = normalizeUrl(fetchArg.str)
          /\ gets' = <<normalizeUrl(fetchArg.str)>>
          /\ fetchPc' = "get"
     ELSE /\ fetchPc' = "threw"
          /\ UNCHANGED <<fetchUrl, gets>>
  /\ UNCHANGED <<fetchArg, response, fetchOut>>
  /\ UNCHANGED <<handler, req, pc, task, collected, step, delayMs, results, res, nres,
                 inflight, log, faults, extractVars, suggestVars>>

\* The catch blocks: after the first request the retry with www., if the
\* function tries again; null otherwise.
AttemptFailed ==
  /\ IF Len(gets) = 1 /\ RetryAllowed(handler, fetchUrl)
     THEN /\ gets' = Append(gets, WwwUrl(fetchUrl))
          /\ fetchPc' = "get"
          /\ UNCHANGED fetchOut
     ELSE /\ fetchOut' = Null
          /\ fetchPc' = "returned"
          /\ UNCHANGED gets
  /\ response' = 0

\* await fetch(...) answers with a response.
GetResponds(status) ==
  /\ fetchPc = "get"
  /\ fetchPc' = "body"
  /\ response' = status
  /\ UNCHANGED <<fetchArg, fetchUrl, gets, fetchOut>>
  /\ UNCHANGED <<handler, req, pc, task, collected, step, delayMs, results, res, nres,
                 inflight, log, faults, extractVars, suggestVars>>

\* await fetch(...) throws: a transport failure.
GetFails ==
  /\ fetchPc = "get"
  /\ AttemptFailed
  /\ UNCHANGED <<fetchArg, fetchUrl>>
  /\ UNCHANGED <<handler, req, pc, task, collected, step, delayMs, results, res, nres,
                 inflight, log, faults, extractVars, suggestVars>>

\* await response.text() resolves: the call returns the text.
BodyRead ==
  /\ fetchPc = "body"
  /\ fetchOut' = BodyOf(Len(gets))
  /\ fetchPc' = "returned"
  /\ UNCHANGED <<fetchArg, fetchUrl, gets, response>>
  /\ UNCHANGED <<handler, req, pc, task, collected, step, delayMs, results, res, nres,
                 inflight, log, faults, extractVars, suggestVars>>

\* await response.text() throws, inside the same try as the request.
BodyFails ==
  /\ fetchPc = "body"
  /\ AttemptFailed
  /\ UNCHANGED <<fetchArg, fetchUrl>>
  /\ UNCHANGED <<handler, req, pc, task, collected, step, delayMs, results, res, nres,
                 inflight, log, faults, extractVars, suggestVars>>

NextFetch ==
  \/ FetchCalled
  \/ \E status \in Statuses : GetResponds(status)
  \/ GetFails
  \/ BodyRead
  \/ BodyFails

SpecFetch == InitFetch /\ [][NextFetch]_vars

----
\* One call of extractStructuredContent.  A page is described by what the
\* function's regular expressions find in it: the length of each captured
\* text once its tags are removed and it is trimmed (NoMatch when the
\* expression does not match), the values of its colour and font-family
\* declarations in page order, and its Google Fonts link.  A font is the
\* sequence of the parts its colons divide: <<"Inter", "400">> is Inter:400.

\* substring(0, 200) of the title, and the caps of the other fields.
TitleCap == 200

DescriptionCap == 300

HeadingCap == 200

SubheadingCap == 300

TextCap == 1500

\* slice(0, 5) of the colours, slice(0, 3) of the fonts.
ColorCap == 5

FontCap == 3

\* match ? ... : '' with no match.
NoMatch == -1

\* The length of match ? match[1].trim() : ''.
Captured(n) == IF n = NoMatch THEN 0 ELSE n

\* The length of text.substring(0, cap), for a text of length n.
Substring(n, cap) == IF n < cap THEN n ELSE cap

\* array.slice(0, n)
Slice(list, n) == SubSeq(list, 1, IF Len(list) < n THEN Len(list) ELSE n)

\* [...new Set(list)]: the first occurrence of each element, in order.
RECURSIVE Distinct(_)
Distinct(list) ==
  IF list = <<>> THEN <<>>
  ELSE LET front == Distinct(SubSeq(list, 1, Len(list) - 1))
           last == list[Len(list)]
       IN  IF \E i \in DOMAIN front : front[i] = last THEN front ELSE Append(front, last)

\* list.join(', ') || 'Could not detect': the joined string is kept as the
\* list it joins; it is empty for no element and for one empty element.
JoinedOrCouldNotDetect(list) ==
  IF list = <<>> \/ list = <<<<"">>>> THEN CouldNotDetect ELSE [joined |-> list]

\* A font list that keeps the weights of the Google Fonts families.
GoogleFamilyWhole(family) == family

\* f.split(':')[0] of one family of the link.
GoogleFamilyName(family) == <<Head(family)>>

NoGoogleLink == [found |-> FALSE, wellFormed |-> TRUE, families |-> <<>>]

GoogleLink(families) == [found |-> TRUE, wellFormed |-> TRUE, families |-> families]

\* A family= value with a % that starts no escape sequence.
MalformedGoogleLink == [found |-> TRUE, wellFormed |-> FALSE, families |-> <<>>]

\* The string '': nothing matches.
EmptyHtml ==
  [title |-> NoMatch, description |-> NoMatch, h1 |-> NoMatch, h2 |-> NoMatch,
   hero |-> NoMatch, text |-> 0, colors |-> <<>>, fontFamilies |-> <<>>,
   google |-> NoGoogleLink]

\* The fonts of the express function: the distinct declared fonts cut to
\* three, the link's families pushed after them, and at the return the
\* distinct ones of these cut to three again.
ExtractedFonts(pg) ==
  LET declared == Slice(Distinct(pg.fontFamilies), FontCap)
      pushed == [i \in DOMAIN pg.google.families |->
                   GoogleFamilyName(pg.google.families[i])]
      fonts == IF pg.google.found THEN declared \o pushed ELSE declared
  IN  Slice(Distinct(fonts), FontCap)

\* The record the express function returns for a page.
ExtractedExpress(pg) ==
  LET h2 == Captured(pg.h2)
      subheadline == IF h2 = 0 THEN Captured(pg.hero) ELSE h2
  IN  [metaTitle |-> Substring(Captured(pg.title), TitleCap),
       metaDescription |-> Substring(Captured(pg.description), DescriptionCap),
       h1 |-> Substring(Captured(pg.h1), HeadingCap),
       subheadline |-> Substring(subheadline, SubheadingCap),
       colors |-> JoinedOrCouldNotDetect(Slice(Distinct(pg.colors), ColorCap)),
       fonts |-> JoinedOrCouldNotDetect(ExtractedFonts(pg)),
       text |-> Substring(pg.text, TextCap)]

\* The record the serverless function returns for a page: the title and
\* the description are not cut, and there are no colours and no fonts.
ExtractedServerless(pg) ==
  [metaTitle |-> Captured(pg.title),
   metaDescription |-> Captured(pg.description),
   h1 |-> Substring(Captured(pg.h1), HeadingCap),
   subheadline |-> Substring(Captured(pg.h2), SubheadingCap),
   text |-> Substring(pg.text, TextCap)]

\* The outcome of a call: the record, or Raise for an exception.  The
\* express function throws a TypeError on null (null.match) and a URIError
\* when decodeURIComponent meets a malformed family= value; the serverless
\* one returns its empty record for null and for ''.
extractPage(h, pg) ==
  IF h = "express"
  THEN IF pg = Null THEN Raise
       ELSE IF pg.google.found /\ ~pg.google.wellFormed THEN Raise
       ELSE ExtractedExpress(pg)
  ELSE IF pg = Null \/ pg = EmptyHtml THEN ExtractedServerless(EmptyHtml)
       ELSE ExtractedServerless(pg)

Arial == <<"Arial">>

Georgia == <<"Georgia">>

Times == <<"Times">>

Verdana == <<"Verdana">>

\* The pages explored: every captured text missing, empty or one character
\* over its cap; no, repeated and more than five colours; none to four
\* declared fonts; no Google Fonts link, family=Inter:400|Roboto:700,
\* family=Inter and a malformed one.
Pages ==
  [title : {NoMatch, 0, TitleCap + 1},
   description : {NoMatch, DescriptionCap + 1},
   h1 : {NoMatch, HeadingCap + 1},
   h2 : {NoMatch, 0, SubheadingCap + 1},
   hero : {NoMatch, SubheadingCap + 1},
   text : {0, TextCap + 1},
   colors : {<<>>, <<"#fff", "#fff", "red">>,
             <<"#000", "#111", "#222", "#333", "#444", "#555">>},
   fontFamilies : {<<>>, <<Arial>>, <<Arial, Georgia>>,
                   <<Arial, Georgia, Arial, Times>>,
                   <<Arial, Georgia, Times, Verdana>>},
   google : {NoGoogleLink, MalformedGoogleLink,
             GoogleLink(<<<<"Inter", "400">>, <<"Roboto", "700">>>>),
             GoogleLink(<<<<"Inter">>>>)}]

InitExtract ==
  /\ handler \in Handlers
  /\ AuditIdle
  /\ FetchIdle
  /\ SuggestIdle
  /\ page \in Pages \cup {Null}
  /\ extractPc = "call"
  /\ extracted = Undefined

\* The call runs to its return or to its exception.
ExtractReturns ==
  /\ extractPc = "call"
  /\ extractPage(handler, page) # Raise
  /\ extracted' = extractPage(handler, page)
  /\ extractPc' = "returned"
  /\ UNCHANGED <<handler, req, pc, task, collected, step, delayMs, results, res, nres,
                 inflight, log, faults, fetchVars, suggestVars, page>>

ExtractThrows ==
  /\ extractPc = "call"
  /\ extractPage(handler, page) = Raise
  /\ extractPc' = "threw"
  /\ UNCHANGED <<handler, req, pc, task, collected, step, delayMs, results, res, nres,
                 inflight, log, faults, fetchVars, suggestVars, page, extracted>>

NextExtract == ExtractReturns \/ ExtractThrows

SpecExtract == InitExtract /\ [][NextExtract]_vars

----
\* One suggest-competitors request.

\* A reply of the LLM to the suggestion prompt, by the {...} span of its
\* text: the JSON of three, no or four competitors, the JSON of an object
\* without a competitors member, no span, and a span that is no JSON.
SuggestReplies == {"three", "none", "four", "other", "nojson", "badjson"}

Suggestion(i) ==
  [name |-> TxtOf("name", i), url |-> TxtOf("url", i), reason |-> TxtOf("reason", i)]

\* The object a reply's span encodes.
SuggestedObject(reply) ==
  CASE reply = "three" -> [competitors |-> [i \in 1 .. 3 |-> Suggestion(i)]]
    [] reply = "none" -> [competitors |-> <<>>]
    [] reply = "four" -> [competitors |-> [i \in 1 .. 4 |-> Suggestion(i)]]
    [] reply = "other" -> [note |-> Txt("no direct competitors")]

\* A response body that is no JSON: the span as the LLM wrote it.
RawSpan == [raw |-> Txt("a {...} span that is no JSON")]

NoCompetitors == [competitors |-> <<>>]

\* The body of the 200 response for a reply.  The express handler sends the
\* parsed span whatever it holds, and the empty list when no span parses;
\* the serverless handler sends the first span as it is, unparsed, and the
\* empty list when there is none.
SuggestBody(h, reply) ==
  CASE reply \in {"three", "none", "four", "other"} -> SuggestedObject(reply)
    [] reply = "nojson" -> NoCompetitors
    [] reply = "badjson" -> IF h = "express" THEN NoCompetitors ELSE RawSpan

\* req.body / JSON.parse(event.body), and the method of the request: the
\* express route answers POST only.
SuggestRequests(h) ==
  LET urls == {EmptyObject, [companyUrl |-> Str(<<>>)], [companyUrl |-> Str(FocalUrl)],
               [companyUrl |-> Str(HttpPrefix \o FocalUrl)], [companyUrl |-> NotAString]}
      names == {EmptyObject, [companyName |-> ""], [companyName |-> FocalName],
                [companyName |-> "G"]}
      methods == IF h = "express" THEN {"POST"} ELSE {"POST", "GET"}
  IN  {[method |-> m, body |-> Spread(u, n)] : m \in methods, u \in urls, n \in names}

InitSuggest ==
  /\ handler \in Handlers
  /\ AuditIdle
  /\ FetchIdle
  /\ ExtractIdle
  /\ suggestReq \in SuggestRequests(handler)
  /\ suggestPc = "start"
  /\ suggestReply = ""
  /\ suggestRes = NoResponse

\* res.status(status).json(body) / return { statusCode, body }
SuggestRespond(status, body) ==
  /\ suggestRes' = [sent |-> TRUE, status |-> status, body |-> body]
  /\ suggestPc' = "done"

\* !companyUrl || !companyName
SuggestInvalid(r) ==
  \/ "companyUrl" \notin DOMAIN r
  \/ r.companyUrl = Str(<<>>)
  \/ "companyName" \notin DOMAIN r
  \/ r.companyName = ""

\* The method check of the serverless handler, the validation, and the call
\* of fetchWebsite.
SuggestReceive ==
  /\ suggestPc = "start"
  /\ IF handler = "serverless" /\ suggestReq.method # "POST"
     THEN SuggestRespond(405, [plain |-> Txt("Method Not Allowed")])
     ELSE IF SuggestInvalid(suggestReq.body)
     THEN SuggestRespond(400, [error |-> Txt("Missing company URL or name")])
     ELSE suggestPc' = "fetch" /\ UNCHANGED suggestRes
  /\ UNCHANGED <<suggestReq, suggestReply>>
  /\ UNCHANGED <<handler, req, pc, task, collected, step, delayMs, results, res, nres,
                 inflight, log, faults, fetchVars, extractVars>>

\* What fetchWebsite and the page it fetched come to.
FetchOutcomes == {"page", "null", "malformed link"}

\* fetchWebsite settles and the handler extracts the page's content: a
\* URL that is no string makes fetchWebsite throw, a malformed Google Fonts
\* link makes the express extractStructuredContent throw, and the catch
\* block answers 500; otherwise the handler calls the LLM.
SuggestFetched(outcome) ==
  /\ suggestPc = "fetch"
  /\ IF ~IsString(suggestReq.body.companyUrl)
     THEN SuggestRespond(500, [error |-> Txt("message of the TypeError")])
     ELSE IF handler = "express" /\ outcome = "malformed link"
     THEN SuggestRespond(500, [error |-> Txt("message of the URIError")])
     ELSE suggestPc' = "llm" /\ UNCHANGED suggestRes
  /\ UNCHANGED <<suggestReq, suggestReply>>
  /\ UNCHANGED <<handler, req, pc, task, collected, step, delayMs, results, res, nres,
                 inflight, log, faults, fetchVars, extractVars>>

\* anthropic.messages.create settles: a rejection reaches the catch block;
\* a reply is answered with status 200.
SuggestLlmReturns(out) ==
  /\ suggestPc = "llm"
  /\ suggestReply' = out
  /\ IF out = "throw"
     THEN SuggestRespond(500, [error |-> ExceptionMessage(out)])
     ELSE SuggestRespond(200, SuggestBody(handler, out))
  /\ UNCHANGED suggestReq
  /\ UNCHANGED <<handler, req, pc, task, collected, step, delayMs, results, res, nres,
                 inflight, log, faults, fetchVars, extractVars>>

NextSuggest ==
  \/ SuggestReceive
  \/ \E outcome \in FetchOutcomes : SuggestFetched(outcome)
  \/ \E out \in SuggestReplies \cup {"throw"} : SuggestLlmReturns(out)

SpecSuggest == InitSuggest /\ [][NextSuggest]_vars

----
\* The same handlers when any of the fetches and captures of a request may
\* fail and every LLM call is answered with the JSON its prompt asks for.
AnyFetchReturns(b) == Settles(<<b, "html">>, PageOf(b), Cardinality(Tasks))

AnyScreenshotReturns(b) == Settles(<<b, "shot">>, ScreenshotOf(b), Cardinality(Tasks))

AnyGoogleScreenshotReturns(b) ==
  Settles(<<b, "gshot">>, GoogleScreenshotOf(b), Cardinality(Tasks))

LlmAnswers(c) == LlmReturns(c, "json")

NextCollection ==
  \/ Receive
  \/ \E b \in Brands : AnyFetchReturns(b)
  \/ \E b \in Brands : AnyScreenshotReturns(b)
  \/ \E b \in Brands : AnyGoogleScreenshotReturns(b)
  \/ CollectionDone
  \/ TimerFires
  \/ \E c \in inflight : LlmAnswers(c)

SpecCollection == Init /\ [][NextCollection]_vars

----
\* What the claims speak of.

\* The request lacks a required field.
BadInput ==
  \/ "companyUrl" \notin DOMAIN req \/ "companyName" \notin DOMAIN req
  \/ "competitors" \notin DOMAIN req
  \/ req.companyUrl = <<>> \/ req.companyName = "" \/ req.competitors = <<>>

Logged(ev, stage) == \E i \in DOMAIN log : log[i].ev = ev /\ log[i].stage = stage

\* The reply of the LLM to call (stage, b) held no JSON object the stage
\* could parse: its parse came to null.
Unparseable(stage, b) ==
  \E i \in DOMAIN log :
    /\ log[i].ev = "return" /\ log[i].stage = stage /\ log[i].brand = b
    /\ log[i].got = "null"

\* Every LLM call made so far got a reply.
NoCallFailed == ~ \E i \in DOMAIN log : log[i].ev = "fail"

ErrorResponse(status) ==
  /\ res.sent /\ res.status = status /\ DOMAIN res.body = {"error"}

SuccessReport == res.sent /\ res.status = 200

CompetitorNames == [i \in DOMAIN req.competitors |-> req.competitors[i].name]

----
\* C1: in the express handler, once the focal company's messaging
\* extraction has returned null for an unparseable reply, no comparison call
\* and no takeaways call is ever issued, and the request ends with a 500
\* error response: 'Could not analyze your website', unless a later LLM call
\* of the focal company failed first.
C1_FocalMessagingNullIsFatal ==
  (handler = "express" /\ Unparseable("msg", 0)) =>
    /\ companyMessaging = Null
    /\ ~Logged("issue", "cmp") /\ ~Logged("issue", "take")
    /\ pc = "done" => ErrorResponse(500)
    /\ (pc = "done" /\ NoCallFailed) =>
         res.body.error = Txt("Could not analyze your website")

C1_Witness ==
  /\ handler = "express" /\ Unparseable("msg", 0) /\ pc = "done"
  /\ res.body = [error |-> Txt("Could not analyze your website")]

\* C2: in the express handler, when the comparison reply yields no parsed
\* object, no takeaways call is issued and the request ends with the 500
\* error response 'Could not compare brands', which holds no report field.
C2_ComparisonNullIsFatal ==
  (handler = "express" /\ Unparseable("cmp", 0)) =>
    /\ comparison = Null
    /\ ~Logged("issue", "take")
    /\ pc = "done"
    /\ res = [sent |-> TRUE, status |-> 500,
              body |-> [error |-> Txt("Could not compare brands")]]

C2_Witness ==
  /\ handler = "express" /\ Unparseable("cmp", 0) /\ pc = "done"
  /\ Len(competitorResults) = 2

\* C3: a request without companyUrl, companyName or a non-empty competitors
\* list is answered 400 'Missing required fields', and no fetch, no capture
\* and no LLM call is ever started for it.
C3_BadInputFailsFast ==
  BadInput =>
    /\ \A t \in Tasks : task[t] = "idle"
    /\ log = <<>> /\ inflight = {}
    /\ pc \in {"start", "done"}
    /\ pc = "done" =>
         res = [sent |-> TRUE, status |-> 400,
                body |-> [error |-> Txt("Missing required fields")]]

C3_Witness ==
  /\ pc = "done" /\ "competitors" \in DOMAIN req /\ req.competitors = <<>>
  /\ "companyUrl" \in DOMAIN req /\ req.companyUrl = FocalUrl
  /\ "companyName" \in DOMAIN req /\ req.companyName = FocalName

\* C4: in the express handler, when every LLM call got a reply and the
\* focal messaging and the comparison were parsed, the request ends in a 200
\* report whose chart lists every requested competitor, whatever the other
\* stages' replies were.
C4_OtherFailuresDegrade ==
  (/\ handler = "express" /\ pc = "done" /\ ~BadInput /\ NoCallFailed
   /\ companyMessaging # Null /\ comparison # Null) =>
    /\ SuccessReport
    /\ Len(competitorResults) = Len(req.competitors)
    /\ res.body.chart.columns = <<"Category", req.companyName>> \o CompetitorNames

C4_Witness ==
  /\ handler = "express" /\ SuccessReport
  /\ \/ Unparseable("msg", 1) /\ Unparseable("take", 0)
     \/ Unparseable("vis", 1) /\ Unparseable("fi", 0)

\* C5: no exception leaves an LLM-backed stage of the express handler:
\* whether the LLM call fails or its reply is unparseable, the stage hands
\* the handler a value.  (The code lets a failed call through.)
C5_NoStageRaises ==
  handler = "express" => ~ \E i \in DOMAIN log : log[i].ev = "raise"

\* The entries of the log before entry j whose event is one of evs.
Before(j, evs) == {i \in 1 .. (j - 1) : log[i].ev \in evs}

\* C6: at most one LLM call of the request is in flight, and a call is
\* issued only after every call issued before it has settled.
C6_LlmCallsSequential ==
  /\ Cardinality(inflight) <= 1
  /\ \A j \in DOMAIN log :
       log[j].ev = "issue" =>
         Cardinality(Before(j, {"issue"})) = Cardinality(Before(j, {"return", "fail"}))

C6_Witness ==
  /\ Cardinality(inflight) = 1
  /\ \E i \in DOMAIN log : log[i].ev = "issue" /\ log[i].stage = "take"

\* An issue or a return of a per-brand inference call.
Inference(e) == e.stage \in {"msg", "vis", "fi"} /\ e.ev \in {"issue", "return"}

\* Call (stage, b) returned before entry j of the log.
ReturnedBefore(stage, b, j) ==
  \E i \in 1 .. (j - 1) :
    log[i].ev = "return" /\ log[i].stage = stage /\ log[i].brand = b

\* C7: the inference calls run brand by brand in request order: a call
\* for a brand is issued only after the messaging and first-impression
\* calls of the brand before it (the focal company before the first
\* competitor) have returned, and no call of an earlier brand is issued or
\* returns after a call of a later brand.
C7_BrandByBrand ==
  LET calls == SelectSeq(log, Inference)
  IN  /\ \A k \in 1 .. (Len(calls) - 1) : calls[k].brand <= calls[k + 1].brand
      /\ \A j \in DOMAIN log :
           (log[j].ev = "issue" /\ Inference(log[j]) /\ log[j].brand >= 1) =>
             /\ ReturnedBefore("msg", log[j].brand - 1, j)
             /\ ReturnedBefore("fi", log[j].brand - 1, j)
             /\ handler = "express" =>
                  \/ ReturnedBefore("vis", log[j].brand - 1, j)
                  \/ collected[<<log[j].brand - 1, "shot">>] = Null

C7_Witness ==
  \E j \in DOMAIN log :
    log[j].ev = "return" /\ log[j].stage = "fi" /\ log[j].brand = 2

\* C8: in the express handler every LLM call but the first is issued right
\* after a timer that started after the previous call returned: a timer of
\* 1000 ms before the comparison call, of 500 ms before any other call.
C8_PacingDelays ==
  handler = "express" =>
    \A j \in DOMAIN log :
      (log[j].ev = "issue" /\ j > 1) =>
        /\ log[j - 1].ev = "delay"
        /\ log[j - 1].ms = IF log[j].stage = "cmp" THEN 1000 ELSE 500
        /\ \E i \in 1 .. (j - 2) :
             /\ log[i].ev = "return"
             /\ \A k \in (i + 1) .. (j - 1) : log[k].ev = "delay"

C8_Witness ==
  /\ handler = "express"
  /\ \E j \in DOMAIN log : log[j].ev = "issue" /\ log[j].stage = "take"

\* C9: while the handler collects, every fetch and capture it waits for
\* has been started: none waits for another to finish.  (The code chains
\* each competitor's fetch and captures.)
C9_AllLaunchedTogether ==
  pc = "collect" =>
    \A t \in Awaited(handler, NumCompetitors) : task[t] # "idle"

\* C10: in the express handler a competitor without a screenshot gets the
\* 'Could not capture' visuals and the chart's Visual Style cell built from
\* them, and the audit ends in a 200 report whenever every LLM call got a
\* reply and the focal messaging and the comparison were parsed.
C10_NoScreenshotSentinel ==
  handler = "express" =>
    /\ \A i \in DOMAIN competitorResults :
         collected[<<i, "shot">>] = Null =>
           /\ competitorResults[i].name = req.competitors[i].name
           /\ competitorResults[i].inferred.colors = CouldNotCapture
           /\ competitorResults[i].inferred.typography = CouldNotCapture
           /\ competitorResults[i].inferred.visualStyle = CouldNotCapture
           /\ SuccessReport =>
                /\ res.body.chart.columns[i + 2] = req.competitors[i].name
                /\ res.body.chart.rows[3].category = "Visual Style"
                /\ res.body.chart.rows[3].values[i + 1] =
                     <<CouldNotCapture, CouldNotCapture, CouldNotCapture>>
    /\ (/\ pc = "done" /\ ~BadInput /\ NoCallFailed
        /\ companyMessaging # Null /\ comparison # Null) => SuccessReport

C10_Witness ==
  /\ handler = "express" /\ SuccessReport
  /\ \E i \in DOMAIN competitorResults :
       /\ collected[<<i, "shot">>] = Null
       /\ log # <<>>
       /\ \E k \in DOMAIN log :
            /\ log[k].ev = "return" /\ log[k].stage = "msg"
            /\ log[k].brand = i /\ log[k].got = "object"
       /\ competitorResults[i].inferred.positioning = TxtOf("positioning", i)

----
\* extractVisuals was called for brand b: the timer before it has fired.
VisualsCalled(b) ==
  \E i \in DOMAIN log : log[i].ev = "delay" /\ log[i].stage = "vis" /\ log[i].brand = b

\* The LLM calls issued for (stage, b).
IssuesOf(stage, b) ==
  {i \in DOMAIN log : log[i].ev = "issue" /\ log[i].stage = stage /\ log[i].brand = b}

\* What the handler holds of extractVisuals for brand b, once it returned.
VisualsHeld(b) ==
  IF b = 0 THEN companyVisuals
  ELSE IF Len(competitorResults) >= b
       THEN [k \in {"colors", "typography", "visualStyle"} |->
               Get(competitorResults[b].inferred, k)]
       ELSE visuals

\* C11: extractVisuals called for a brand without a screenshot issues no LLM
\* call and returns 'Could not capture' for colors, typography and
\* visualStyle; called with a screenshot it issues exactly one LLM call.
C11_VisualsShortCircuit ==
  \A b \in 0 .. MaxCompetitors :
    VisualsCalled(b) =>
      IF collected[<<b, "shot">>] = Null
      THEN /\ IssuesOf("vis", b) = {}
           /\ VisualsHeld(b) = CouldNotCaptureVisuals
           /\ VisualsHeld(b).colors = Txt("Could not capture")
      ELSE Cardinality(IssuesOf("vis", b)) = 1

C11_Witness ==
  /\ VisualsCalled(1) /\ VisualsCalled(2) /\ pc = "done"
  /\ collected[<<1, "shot">>] = Null /\ collected[<<2, "shot">>] # Null
  /\ Len(competitorResults) = 2

\* C12: in the express handler, when the takeaways reply is unparseable the
\* request still ends in the 200 report, and the report's takeaways has the
\* members keep, fix, explore and watch, each an empty sequence.  (The code
\* answers with the object {}.)
C12_EmptyShapedTakeaways ==
  (handler = "express" /\ Unparseable("take", 0) /\ pc = "done") =>
    /\ SuccessReport
    /\ DOMAIN res.body.takeaways = {"keep", "fix", "explore", "watch"}
    /\ \A k \in DOMAIN res.body.takeaways : res.body.takeaways[k] = <<>>

----
\* C13: failed collections cause no error response and no exception.  With
\* every LLM call answered, a valid request whose fetches and captures
\* resolve to any mix of content and null runs every stage for every brand
\* and ends in the 200 report, with empty structured fields for a brand
\* without a page.
C13_CollectionFailuresTolerated ==
  /\ ~ \E i \in DOMAIN log : log[i].ev = "raise"
  /\ res.sent /\ ~BadInput => SuccessReport
  /\ (pc = "done" /\ ~BadInput) =>
       /\ Len(competitorResults) = NumCompetitors
       /\ \A b \in 0 .. NumCompetitors :
            /\ IssuesOf("msg", b) # {} /\ IssuesOf("fi", b) # {}
            /\ handler = "express" => VisualsCalled(b)
            /\ collected[<<b, "html">>] = Null =>
                 /\ Structured(b).metaTitle = EmptyString
                 /\ Structured(b).text = EmptyString
       /\ IssuesOf("cmp", 0) # {} /\ IssuesOf("take", 0) # {}
       /\ collected[<<0, "html">>] = Null =>
            res.body.firstImpressions[req.companyName].metaTitle = EmptyString

C13_Witness ==
  /\ SuccessReport /\ handler = "express" /\ NumCompetitors = 2
  /\ \A b \in 0 .. 2 : \A k \in Kinds : collected[<<b, k>>] = Null

----
\* C14: fetchWebsite never throws to its caller, whatever its argument and
\* whatever the HTTP requests do.  (The code normalizes the argument outside
\* its try block, and url.trim() throws for a value that is no string.)
C14_FetchNeverThrows == fetchPc # "threw"

\* The URL with www. put right after its scheme.
WwwAfterScheme(url) ==
  IF StartsWith(url, HttpsPrefix)
  THEN HttpsPrefix \o WwwLabel \o SubSeq(url, Len(HttpsPrefix) + 1, Len(url))
  ELSE HttpPrefix \o WwwLabel \o SubSeq(url, Len(HttpPrefix) + 1, Len(url))

\* The first request of the call names a URL that holds '://www.'.
AlreadyWww == gets # <<>> /\ Includes(gets[1], <<":", "/", "/", "w", "w", "w", ".">>)

\* C15, as the spec states it: a call that returns null has issued the
\* retry, whatever its URL.
C15_NullOnlyAfterRetry ==
  (fetchPc = "returned" /\ fetchOut = Null) => Len(gets) = 2

\* C15, amended: a call issues at most two requests, the second to the
\* first URL with www. after its scheme; the express function never retries
\* a URL that holds '://www.' and returns null after its one failure; every
\* other call returns null only after its retry has failed too; a response
\* with a non-success status is returned as text.
C15_RetryOnceUnlessWww ==
  /\ Len(gets) <= 2
  /\ Len(gets) = 2 =>
       /\ gets[2] = WwwAfterScheme(gets[1])
       /\ ~(handler = "express" /\ AlreadyWww)
  /\ (fetchPc = "returned" /\ fetchOut = Null /\ Len(gets) = 1) =>
       (handler = "express" /\ AlreadyWww)
  /\ (fetchPc = "returned" /\ response = 404) => fetchOut = BodyOf(Len(gets))

C15_Witness ==
  /\ fetchPc = "returned" /\ fetchOut = Null /\ Len(gets) = 2
  /\ gets[1] = <<"h", "t", "t", "p", "s", ":", "/", "/", "a">>
  /\ gets[2] = <<"h", "t", "t", "p", "s", ":", "/", "/", "w", "w", "w", ".", "a">>

\* C16: the first request of fetchWebsite names the normalized URL: the
\* argument trimmed, with https:// in front exactly when it starts with
\* neither http:// nor https://.  So it starts with one of the two, and
\* normalizing it again changes nothing; "a" is requested as https://a.
C16_RequestsNormalizedUrl ==
  gets # <<>> =>
    LET trimmed == Trim(fetchArg.str)
        hasScheme == StartsWith(trimmed, HttpPrefix) \/ StartsWith(trimmed, HttpsPrefix)
    IN  /\ gets[1] = IF hasScheme THEN trimmed ELSE HttpsPrefix \o trimmed
        /\ StartsWith(gets[1], HttpPrefix) \/ StartsWith(gets[1], HttpsPrefix)
        /\ gets[1][Len(gets[1])] \notin Whitespace
        /\ normalizeUrl(gets[1]) = gets[1]
        /\ fetchArg.str = <<"a">> =>
             gets[1] = <<"h", "t", "t", "p", "s", ":", "/", "/", "a">>

C16_Witness ==
  /\ fetchPc = "returned" /\ fetchArg = Str(<<" ", "a", "\t">>)
  /\ gets[1] = <<"h", "t", "t", "p", "s", ":", "/", "/", "a">>

----
\* The fields the spec declares for the extracted record.
DeclaredFields ==
  {"metaTitle", "metaDescription", "h1", "subheadline", "colors", "fonts", "text"}

\* The list a colours or fonts string joins; none for 'Could not detect'.
JoinedList(field) == IF field = CouldNotDetect THEN <<>> ELSE field.joined

\* C17: for every HTML input extractStructuredContent returns, without
\* throwing, a record with all seven declared fields, the title at most 200
\* characters long, the description 300, the heading 200, the subheading
\* 300, the text 1500, with at most 5 colours and 3 fonts.  (The express
\* function throws on a malformed family= value; the serverless one cuts
\* neither title nor description and returns no colours and no fonts.)
C17_ExtractTotalAndCapped ==
  page # Null =>
    /\ extractPc # "threw"
    /\ extractPc = "returned" =>
         /\ DOMAIN extracted = DeclaredFields
         /\ extracted.metaTitle <= 200
         /\ extracted.metaDescription <= 300
         /\ extracted.h1 <= 200
         /\ extracted.subheadline <= 300
         /\ extracted.text <= 1500
         /\ Len(JoinedList(extracted.colors)) <= 5
         /\ Len(JoinedList(extracted.fonts)) <= 3

\* C18: for null and for '' the function returns the record whose seven
\* fields are all the empty string.  (The express function throws on null
\* and answers 'Could not detect' for the colours and fonts of ''; the
\* serverless record has neither field.)
C18_NullAndEmptyAllEmpty ==
  (page = Null \/ page = EmptyHtml) =>
    /\ extractPc # "threw"
    /\ extractPc = "returned" =>
         /\ DOMAIN extracted = DeclaredFields
         /\ \A k \in {"metaTitle", "metaDescription", "h1", "subheadline", "text"} :
              extracted[k] = 0
         /\ extracted.colors = [joined |-> <<>>]
         /\ extracted.fonts = [joined |-> <<>>]

----
\* C20: whatever the LLM replies, suggest-competitors answers with an
\* object whose competitors is a list of at most three {name, url, reason}
\* entries, or with an error object {error}.  (The code answers with the
\* reply's JSON span as it is.)
C20_SuggestPayloadShape ==
  (suggestPc = "done" /\ suggestReply # "") =>
    LET body == suggestRes.body
    IN  \/ DOMAIN body = {"error"}
        \/ /\ DOMAIN body = {"competitors"}
           /\ Len(body.competitors) <= 3
           /\ \A i \in DOMAIN body.competitors :
                DOMAIN body.competitors[i] = {"name", "url", "reason"}

----
\* The names of the request's brands are pairwise distinct.
DistinctNames ==
  /\ \A i, j \in DOMAIN req.competitors :
       i # j => req.competitors[i].name # req.competitors[j].name
  /\ \A i \in DOMAIN req.competitors : req.competitors[i].name # req.companyName

\* The name of brand b of the request.
NameOf(b) == IF b = 0 THEN req.companyName ELSE req.competitors[b].name

\* The URL the report gives for brand b of the explored requests.
ExpectedUrl(b) ==
  CASE b = 0 -> <<"h", "t", "t", "p", "s", ":", "/", "/", "f", ".", "c", "o">>
    [] b = 1 -> <<"h", "t", "t", "p", ":", "/", "/", "a">>
    [] b = 2 -> <<"h", "t", "t", "p", "s", ":", "/", "/", "b">>
    [] b = 3 -> <<"h", "t", "t", "p", "s", ":", "/", "/", "c">>
    [] OTHER -> <<"h", "t", "t", "p", "s", ":", "/", "/", "d">>

----
\* error.message of the exceptions the catch blocks receive.
CaughtMessages ==
  {Txt("message of the TypeError"), Txt("message of the URIError"),
   Txt("message of the LLM client's error"),
   Txt("message of the JSON.parse SyntaxError")}

\* C22: every error response of suggest-competitors is an object {error:
\* message} whose message is not the message of an exception caught in the
\* handler.  (The serverless handler answers another method than POST with
\* the plain text 'Method Not Allowed', and every catch block answers with
\* error.message of whatever was thrown.)
C22_ErrorsAreErrorObjects ==
  (suggestRes.sent /\ suggestRes.status # 200) =>
    /\ DOMAIN suggestRes.body = {"error"}
    /\ suggestRes.body.error \notin CaughtMessages

----
\* C23: the score of every success report is an integer in [0,100],
\* whatever the Comparator's LLM call replied.  (The express handler sends
\* comparison.score of whatever object the reply's span parses to.)
C23_ScoreInRange ==
  SuccessReport => res.body.score \in {Num(n) : n \in 0 .. 100}

----
\* C24: in the express handler, once the focal company's messaging call
\* has returned null no further LLM call is issued, and the request ends
\* with an error object and no report.  (The handler tests companyMessaging
\* only after the focal visuals and first-impression calls.)
C24_NoCallAfterNullMessaging ==
  handler = "express" =>
    \A j \in DOMAIN log :
      (log[j].ev = "return" /\ log[j].stage = "msg" /\ log[j].brand = 0
         /\ log[j].got = "null") =>
        /\ \A k \in DOMAIN log : k > j => log[k].ev # "issue"
        /\ pc = "done" => ErrorResponse(500)

----
\* C25: the serverless audit handler answers with a success report only
\* when the focal messaging call and the Comparator call both yielded a
\* parsed object; a null of either ends the request in an error response.
\* (The serverless handler tests neither value and fills the report with
\* defaults.)
C25_ServerlessNullIsFatal ==
  (handler = "serverless" /\ pc = "done"
     /\ (Unparseable("msg", 0) \/ Unparseable("cmp", 0))) =>
    ErrorResponse(500)

----
\* C26: in either handler, a stage whose reply holds no {...} span, or a
\* span that is not JSON, returns to the handler (with null or a fallback
\* value): the parse of no reply raises.  (The serverless stages call
\* JSON.parse outside any try block.)
C26_UnparseableNeverRaises ==
  \A i \in DOMAIN log : log[i].ev = "return" => log[i].got # "raise"

----
\* C27: in every express audit that ends in a success report, the
\* Comparator call was issued exactly once, after the last inference of
\* the last competitor had returned and with no inference call after it,
\* and the takeaways call was issued exactly once, after the Comparator
\* call had returned.
C27_ComparatorThenTakeaways ==
  (handler = "express" /\ SuccessReport) =>
    /\ Cardinality(IssuesOf("cmp", 0)) = 1
    /\ Cardinality(IssuesOf("take", 0)) = 1
    /\ \A j \in IssuesOf("cmp", 0) :
         /\ ReturnedBefore("msg", NumCompetitors, j)
         /\ ReturnedBefore("fi", NumCompetitors, j)
         /\ \A k \in DOMAIN log : Inference(log[k]) => k < j
    /\ \A j \in IssuesOf("take", 0) : ReturnedBefore("cmp", 0, j)

C27_Witness ==
  /\ handler = "express" /\ SuccessReport /\ NumCompetitors = 2
  /\ \E j \in IssuesOf("take", 0) : ReturnedBefore("cmp", 0, j)

----
\* C28: in every success report the chart has the columns 'Category', the
\* focal company's name and the competitors' names in request order, and
\* exactly the rows Positioning, Voice and Visual Style; each row holds one
\* value per brand, and the value in a brand's column is that brand's own.
\* (The chart of the serverless handler has no Visual Style row.)
C28_ChartShape ==
  SuccessReport =>
    LET chart == res.body.chart
    IN  /\ chart.columns = <<"Category", req.companyName>> \o CompetitorNames
        /\ [r \in DOMAIN chart.rows |-> chart.rows[r].category]
             = <<"Positioning", "Voice", "Visual Style">>
        /\ \A r \in DOMAIN chart.rows :
             Len(chart.rows[r].values) = NumCompetitors + 1
        /\ \A b \in 0 .. NumCompetitors :
             /\ chart.rows[1].values[b + 1]
                  \in {Undefined, Dash, TxtOf("positioning", b)}
             /\ LET voice == chart.rows[2].values[b + 1]
                IN  \/ voice = Dash
                    \/ voice = [adjectives |-> <<TxtOf("adjective", b)>>,
                                summary |-> TxtOf("voiceSummary", b)]
             /\ LET style == chart.rows[3].values[b + 1]
                IN  \A k \in DOMAIN style : style[k].of \in {b, -1}

\* The same of the express handler's reports alone.
C28_ExpressChartShape == handler = "express" => C28_ChartShape

----
\* The handler has answered with a report or with an error object.
Answered ==
  /\ res.sent
  /\ \/ SuccessReport /\ "error" \notin DOMAIN res.body
     \/ res.status = 500 /\ DOMAIN res.body = {"error"}

\* C29: an audit request that passes the validation gets exactly one
\* response, a report or an error object: the handler answers at most
\* once, it has answered when it is done, and, every fetch, capture, timer
\* and LLM call settling, it does answer.
C29_ExactlyOneResponse ==
  /\ [](~InvalidRequest(handler, req) =>
         /\ nres <= 1
         /\ res.sent <=> nres = 1
         /\ res.sent => Answered
         /\ pc = "done" => res.sent)
  /\ ((pc = "start" /\ ~InvalidRequest(handler, req)) ~> Answered)

C29_Witness ==
  /\ ~InvalidRequest(handler, req) /\ pc = "done" /\ nres = 1
  /\ SuccessReport /\ NumCompetitors = 2

====
